---- MODULE Spec2Model ----
(***************************************************************************)
(* Sell-To-Cover calculation engine of stc2go (package stc).               *)
(*                                                                         *)
(* The Go code computes on float64.  The model computes on exact decimal   *)
(* fixed-point numbers, each kind of quantity an integer in its own unit:  *)
(*   share counts     in 1/ShareScale share                                *)
(*   input prices and configured fees in 1/PriceScale dollar (mills)       *)
(*   tax and commission rates in 1/RateScale                               *)
(*   computed money   in 1/MoneyScale dollar ("ticks"), so that            *)
(*                    shares * commissionRate is a money amount as it is.  *)
(*                                                                         *)
(* After the engine come roundMoney on binary64 and the window of ui.go:   *)
(* the two calculation tabs and the keypad.                                *)
(***************************************************************************)
EXTENDS Integers, Sequences, FiniteSets, TLC

ShareScale == 10
PriceScale == 1000
RateScale == 10000
MoneyScale == ShareScale * RateScale
CentTicks == MoneyScale \div 100

\* a configured dollar amount or an input price (mills) as computed money
Money(p) == p * (MoneyScale \div PriceScale)
\* a whole number of dollars as computed money
Dollars(d) == d * MoneyScale
\* a whole number as a share count
Shares(k) == k * ShareScale
\* shares * price as computed money (exact)
Times(shares, price) == shares * price * (MoneyScale \div (ShareScale * PriceScale))

Max(a, b) == IF a >= b THEN a ELSE b

\* math.Round(num/den), den > 0: nearest integer, halves away from zero
Round(num, den) ==
    IF num >= 0
    THEN (num \div den) + (IF 2 * (num % den) >= den THEN 1 ELSE 0)
    ELSE -(((-num) \div den) + (IF 2 * ((-num) % den) >= den THEN 1 ELSE 0))

\* mutant: the quotient rounded to the nearest whole number instead of up
CeilNearest(num, den) == Round(num, den)

\* math.Ceil(num/den), den > 0
Ceil(num, den) == -((-num) \div den)

\* roundMoney(val) for val = v/scale dollars: math.Round(val*100)/100, as money
roundMoney(v, scale) == CentTicks * Round(v, scale \div 100)

\* a tax line cut to whole cents instead of rounded
TaxLineTruncated(gain, rate) ==
    CentTicks * (((gain \div CentTicks) * rate) \div RateScale)

\* a tax line that taxes gains only and is zero for a loss
TaxLineOfGainOnly(gain, rate) ==
    IF gain <= 0 THEN 0
    ELSE roundMoney((gain \div CentTicks) * rate, 100 * RateScale)

\* roundMoney(result.TaxableGain * rate): gain is money, rate in 1/RateScale
TaxLine(gain, rate) == roundMoney((gain \div CentTicks) * rate, 100 * RateScale)

maxIterations == 100

----------------------------------------------------------------------------
(* Configurations and inputs the calculator is driven with. *)

DefaultTaxRates ==
    [Federal |-> 2200, Medicare |-> 145, SocialSec |-> 620, State |-> 0, LocalSDI |-> 0]

DefaultBrokerFees ==
    [CommissionRate |-> 300, MinimumFee |-> 25000, FlatFee |-> 0]

NewDefaultCalculator ==
    [TaxRates |-> DefaultTaxRates, BrokerFees |-> DefaultBrokerFees]

NewCalculator(cfg) == cfg

\* default rates, no tax at all, and rates that sum above 1
TaxRateChoices ==
    { DefaultTaxRates,
      [Federal |-> 0, Medicare |-> 0, SocialSec |-> 0, State |-> 0, LocalSDI |-> 0],
      [Federal |-> 5000, Medicare |-> 145, SocialSec |-> 620, State |-> 5000, LocalSDI |-> 5000] }

\* default fees, a 10.00 and a 50.00 flat fee, no fees,
\* and a commission of 1.00 per share with no floor
BrokerFeeChoices ==
    { DefaultBrokerFees,
      [CommissionRate |-> 300, MinimumFee |-> 25000, FlatFee |-> 10000],
      [CommissionRate |-> 300, MinimumFee |-> 25000, FlatFee |-> 50000],
      [CommissionRate |-> 0, MinimumFee |-> 0, FlatFee |-> 0],
      [CommissionRate |-> 10000, MinimumFee |-> 0, FlatFee |-> 0],
      [CommissionRate |-> 9900, MinimumFee |-> 0, FlatFee |-> 0],
      [CommissionRate |-> 300, MinimumFee |-> 25000, FlatFee |-> -50000] }

Configs == [TaxRates : TaxRateChoices, BrokerFees : BrokerFeeChoices]

\* the number of share lots (of 2.5 shares) the input families range over
MaxLots == 3

\* 100 shares at 10.00, FMV 50.00; 10 shares at 10.00, FMV 1.00 (under water);
\* 10 shares at 0.10, FMV 1.00; 10.5 shares at 2.55, FMV 7.25;
\* 1 share at 1.004, FMV 1.00 (under water by less than half a cent);
\* and 2.5, 5, ... shares at 1.50, FMV 4.00
Inputs ==
    { [ExercisePrice |-> 10000, ExercisedShares |-> 1000, FMV |-> 50000],
      [ExercisePrice |-> 10000, ExercisedShares |-> 100, FMV |-> 1000],
      [ExercisePrice |-> 1004, ExercisedShares |-> 10, FMV |-> 1000],
      [ExercisePrice |-> 100, ExercisedShares |-> 100, FMV |-> 1000],
      [ExercisePrice |-> 2550, ExercisedShares |-> 105, FMV |-> 7250] }
    \cup { [ExercisePrice |-> 1500, ExercisedShares |-> 25 * k, FMV |-> 4000] : k \in 1..MaxLots }

\* 100 shares vested at 40.00, sold at 50.00; 10 shares at 1.00 / 1.00;
\* 10.5 shares vested at 7.25, sold at 7.00;
\* and 2.5, 5, ... shares vested at 4.00, sold at 1.00
RSUInputs ==
    { [SharesReleased |-> 1000, VestPrice |-> 40000, SalePrice |-> 50000],
      [SharesReleased |-> 100, VestPrice |-> 1000, SalePrice |-> 1000],
      [SharesReleased |-> 105, VestPrice |-> 7250, SalePrice |-> 7000] }
    \cup { [SharesReleased |-> 25 * k, VestPrice |-> 4000, SalePrice |-> 1000] : k \in 1..MaxLots }

----------------------------------------------------------------------------
VARIABLES
    config,        \* Calculator.config
    pc,            \* "idle", "loop", "final", "returned"
    kind,          \* which method runs or ran last: "none", "option", "rsu"
    input,         \* the argument of the call
    result,        \* the Result / RSUResult being built, then returned
    sharesToSell,  \* local sharesToSell
    i,             \* loop counter
    iter,          \* locals of the last executed loop body
    stable         \* the loop left through break

\* what the callers did, kept to state properties over calls
VARIABLES
    setTaxRates,   \* the rates of the construction or of the last UpdateTaxRates
    setBrokerFees, \* the fees of the construction or of the last UpdateBrokerFees
    prev,          \* the result of the call just before this one, when that call
                   \* had the same method and input and no update came between
    cfgAtCall,     \* GetConfig() when the current call was entered
    updates        \* updates that ran while the current call was in progress

\* batch.go: BatchResult, Summary and the CSV reader / writer
VARIABLES
    bpc,           \* "idle", "batch", "done"
    inputs,        \* CalculateBatch: the inputs argument
    results,       \* CalculateBatch: the results slice, then BatchResult.Results
    idx,           \* CalculateBatch: the range index, 1-based
    summary,       \* the value returned by Summarize
    csv,           \* the records ToCSV wrote
    records,       \* the records FromCSV reads
    imported       \* the ([]Input, error) returned by FromCSV

\* ui.go: the window of the desktop application
VARIABLES
    val,           \* roundMoney: the argument val
    rounded,       \* roundMoney: the value returned
    entries,       \* the texts of the three required entries at the last click
    labels,        \* the result labels of the option tab and of the RSU tab
    dialog,        \* the message of the error dialog shown by the last click
    invoked,       \* the input the last click handed to the solver
    currentNum,    \* keypad: currentNum
    storedNum,     \* keypad: storedNum
    currentOp,     \* keypad: currentOp
    lastWasOp,     \* keypad: lastWasOp
    display,       \* keypad: the text of the display label
    history        \* keypad: the text of the history label

setVars == <<setTaxRates, setBrokerFees>>
callVars == <<prev, cfgAtCall, updates>>
batchVars == <<bpc, inputs, results, idx, summary, csv, records, imported>>
roundVars == <<val, rounded>>
tabVars == <<entries, labels, dialog, invoked>>
keypadVars == <<currentNum, storedNum, currentOp, lastWasOp, display, history>>
windowVars == <<roundVars, tabVars, keypadVars>>

engineVars == <<config, pc, kind, input, result, sharesToSell, i, iter, stable,
                setVars, callVars, batchVars>>

vars == <<config, pc, kind, input, result, sharesToSell, i, iter, stable,
          setVars, callVars, batchVars, windowVars>>

Idle == pc \in {"idle", "returned"}

NoInput == [none |-> 0]

NoIter == [commission |-> 0, feesApplied |-> 0, totalCosts |-> 0,
           newSharesToSell |-> 0, grossProceeds |-> 0]

NoSummary == [none |-> 0]

NoImport == [none |-> 0]

\* a Calculator bound to cfg on which nothing was called yet
Constructed(cfg) ==
    /\ config = cfg
    /\ pc = "idle"
    /\ kind = "none"
    /\ input = NoInput
    /\ result = NoInput
    /\ sharesToSell = 0
    /\ i = 0
    /\ iter = NoIter
    /\ stable = FALSE
    /\ setTaxRates = cfg.TaxRates
    /\ setBrokerFees = cfg.BrokerFees
    /\ prev = NoInput
    /\ cfgAtCall = cfg
    /\ updates = 0

\* no batch was run, nothing exported or imported
NoBatch ==
    /\ bpc = "idle"
    /\ inputs = <<>>
    /\ results = <<>>
    /\ idx = 1
    /\ summary = NoSummary
    /\ csv = <<>>
    /\ records = <<>>
    /\ imported = NoImport

\* the window as it opens: nothing rounded, both tabs with "-" in every result
\* label and no dialog, the keypad cleared
NoWindow ==
    /\ val = 0
    /\ rounded = NoInput
    /\ entries = NoInput
    /\ labels = [option |-> NoInput, rsu |-> NoInput]
    /\ dialog = ""
    /\ invoked = NoInput
    /\ currentNum = <<"0">>
    /\ storedNum = 0
    /\ currentOp = ""
    /\ lastWasOp = FALSE
    /\ display = <<"0">>
    /\ history = <<>>

Init ==
    /\ \E cfg \in {NewDefaultCalculator} \cup {NewCalculator(c) : c \in Configs} :
          Constructed(cfg)
    /\ NoBatch
    /\ NoWindow

\* an update that rebuilds the whole configuration around the new rates
UpdateTaxRatesRebuilding(rates) ==
    /\ Idle
    /\ config' = [TaxRates |-> rates, BrokerFees |-> DefaultBrokerFees]
    /\ pc' = "idle"
    /\ setTaxRates' = rates
    /\ UNCHANGED <<kind, input, result, sharesToSell, i, iter, stable>>
    /\ UNCHANGED <<setBrokerFees, callVars, batchVars, windowVars>>

UpdateTaxRates(rates) ==
    /\ Idle
    /\ config' = [config EXCEPT !.TaxRates = rates]
    /\ pc' = "idle"
    /\ setTaxRates' = rates
    /\ UNCHANGED <<kind, input, result, sharesToSell, i, iter, stable>>
    /\ UNCHANGED <<setBrokerFees, callVars, batchVars, windowVars>>

UpdateBrokerFees(fees) ==
    /\ Idle
    /\ config' = [config EXCEPT !.BrokerFees = fees]
    /\ pc' = "idle"
    /\ setBrokerFees' = fees
    /\ UNCHANGED <<kind, input, result, sharesToSell, i, iter, stable>>
    /\ UNCHANGED <<setTaxRates, callVars, batchVars, windowVars>>

GetConfig == config

----------------------------------------------------------------------------
(* Calculator.Calculate: option exercise *)

\* the Result literal and the cost / tax lines
CalculateBasis(in, cfg) ==
    LET optionCost == roundMoney(in.ExercisedShares * in.ExercisePrice,
                                 ShareScale * PriceScale)
        taxableGain == roundMoney((in.FMV - in.ExercisePrice) * in.ExercisedShares,
                                  PriceScale * ShareScale)
        federalTax == TaxLine(taxableGain, cfg.TaxRates.Federal)
        medicareTax == TaxLine(taxableGain, cfg.TaxRates.Medicare)
        socialSecTax == TaxLine(taxableGain, cfg.TaxRates.SocialSec)
        stateTax == TaxLine(taxableGain, cfg.TaxRates.State)
        localSDITax == TaxLine(taxableGain, cfg.TaxRates.LocalSDI)
    IN  [ExercisePrice |-> in.ExercisePrice,
         ExercisedShares |-> in.ExercisedShares,
         FMV |-> in.FMV,
         OptionCost |-> optionCost,
         TaxableGain |-> taxableGain,
         FederalTax |-> federalTax,
         MedicareTax |-> medicareTax,
         SocialSecTax |-> socialSecTax,
         StateTax |-> stateTax,
         LocalSDITax |-> localSDITax,
         TotalTax |-> federalTax + medicareTax + socialSecTax + stateTax + localSDITax,
         BrokerCommission |-> 0,
         BrokerFees |-> 0,
         TotalCosts |-> 0,
         SharesToSell |-> 0,
         EstGrossProceeds |-> 0,
         Residual |-> 0,
         NetShares |-> 0]

\* baseLiability and the initial guess
CalculateSeed(res, cfg, in) ==
    LET baseLiability == res.OptionCost + res.TotalTax + Money(cfg.BrokerFees.FlatFee)
    IN  IF in.FMV > 0 THEN Shares(Ceil(baseLiability, Money(in.FMV))) ELSE 0

\* mutant: the commission is charged without the minimum-fee floor
CalculateIterationNoFloor(res, cfg, in, n) ==
    LET brokerCommission == n * cfg.BrokerFees.CommissionRate
        totalCosts == res.OptionCost + res.TotalTax + brokerCommission
    IN  [commission |-> brokerCommission,
         feesApplied |-> brokerCommission,
         totalCosts |-> totalCosts,
         newSharesToSell |-> Shares(Ceil(totalCosts, Money(in.FMV))),
         grossProceeds |-> 0]

\* mutant: the commission charged on the shares kept instead of the shares sold
CalculateIterationOnKeptShares(res, cfg, in, n) ==
    LET brokerCommission == (in.ExercisedShares - n) * cfg.BrokerFees.CommissionRate
        brokerFeesApplied == Max(brokerCommission, Money(cfg.BrokerFees.MinimumFee))
        totalCosts == res.OptionCost + res.TotalTax + brokerFeesApplied
    IN  [commission |-> brokerCommission,
         feesApplied |-> brokerFeesApplied,
         totalCosts |-> totalCosts,
         newSharesToSell |-> Shares(Ceil(totalCosts, Money(in.FMV))),
         grossProceeds |-> 0]

\* one evaluation of the loop body for the current guess n
CalculateIteration(res, cfg, in, n) ==
    LET brokerCommission == n * cfg.BrokerFees.CommissionRate
        brokerFeesApplied == Max(brokerCommission, Money(cfg.BrokerFees.MinimumFee))
        totalCosts == res.OptionCost + res.TotalTax + brokerFeesApplied
    IN  [commission |-> brokerCommission,
         feesApplied |-> brokerFeesApplied,
         totalCosts |-> totalCosts,
         newSharesToSell |-> Shares(Ceil(totalCosts, Money(in.FMV))),
         grossProceeds |-> 0]

\* mutant: the stable iteration reports the count and the fee, not the total
CalculateStableWithoutTotal(res, n, it) ==
    [res EXCEPT !.SharesToSell = n,
                !.BrokerCommission = it.commission,
                !.BrokerFees = it.feesApplied]

\* the assignments made when the guess is stable
CalculateStable(res, n, it) ==
    [res EXCEPT !.SharesToSell = n,
                !.BrokerCommission = it.commission,
                !.BrokerFees = it.feesApplied,
                !.TotalCosts = it.totalCosts]

\* mutant: gross proceeds taken from the shares kept instead of the shares sold
CalculateFinishKeptShares(res, in) ==
    LET estGrossProceeds == Times(in.ExercisedShares - res.SharesToSell, in.FMV)
    IN  [res EXCEPT !.EstGrossProceeds = estGrossProceeds,
                    !.Residual = estGrossProceeds - res.TotalCosts,
                    !.NetShares = in.ExercisedShares - res.SharesToSell]

\* the assignments after the loop
CalculateFinish(res, in) ==
    LET estGrossProceeds == Times(res.SharesToSell, in.FMV)
    IN  [res EXCEPT !.EstGrossProceeds = estGrossProceeds,
                    !.Residual = estGrossProceeds - res.TotalCosts,
                    !.NetShares = in.ExercisedShares - res.SharesToSell]

Calculate(in) ==
    /\ Idle
    /\ kind' = "option"
    /\ input' = in
    /\ prev' = (IF pc = "returned" /\ kind = "option" /\ input = in
                THEN result ELSE NoInput)
    /\ cfgAtCall' = config
    /\ updates' = 0
    /\ result' = CalculateBasis(in, config)
    /\ sharesToSell' = CalculateSeed(CalculateBasis(in, config), config, in)
    /\ i' = 0
    /\ iter' = NoIter
    /\ stable' = FALSE
    /\ pc' = IF 0 < maxIterations THEN "loop" ELSE "final"
    /\ UNCHANGED <<config, setVars, batchVars, windowVars>>

\* mutant: a loop without the break, which runs on to the bound
CalculateLoopWithoutBreak ==
    /\ pc = "loop"
    /\ kind = "option"
    /\ LET it == CalculateIteration(result, config, input, sharesToSell)
       IN  /\ iter' = it
           /\ IF it.newSharesToSell = sharesToSell
              THEN /\ result' = CalculateStable(result, sharesToSell, it)
                   /\ stable' = TRUE
              ELSE UNCHANGED <<result, stable>>
           /\ sharesToSell' = it.newSharesToSell
           /\ i' = i + 1
           /\ pc' = IF i + 1 < maxIterations THEN "loop" ELSE "final"
    /\ UNCHANGED <<config, kind, input, setVars, callVars, batchVars, windowVars>>

CalculateLoop ==
    /\ pc = "loop"
    /\ kind = "option"
    /\ LET it == CalculateIteration(result, config, input, sharesToSell)
       IN  /\ iter' = it
           /\ IF it.newSharesToSell = sharesToSell
              THEN /\ result' = CalculateStable(result, sharesToSell, it)
                   /\ stable' = TRUE
                   /\ pc' = "final"
                   /\ UNCHANGED <<sharesToSell, i>>
              ELSE /\ sharesToSell' = it.newSharesToSell
                   /\ i' = i + 1
                   /\ pc' = IF i + 1 < maxIterations THEN "loop" ELSE "final"
                   /\ UNCHANGED <<result, stable>>
    /\ UNCHANGED <<config, kind, input, setVars, callVars, batchVars, windowVars>>

\* a return that writes the fee it applied back into the bound configuration
CalculateReturnKeepingFee ==
    /\ pc = "final"
    /\ kind = "option"
    /\ result' = CalculateFinish(result, input)
    /\ pc' = "returned"
    /\ config' = [config EXCEPT !.BrokerFees.MinimumFee = result.BrokerFees \div (MoneyScale \div PriceScale)]
    /\ UNCHANGED <<kind, input, sharesToSell, i, iter, stable>>
    /\ UNCHANGED <<setVars, callVars, batchVars, windowVars>>

CalculateReturn ==
    /\ pc = "final"
    /\ kind = "option"
    /\ result' = CalculateFinish(result, input)
    /\ pc' = "returned"
    /\ UNCHANGED <<config, kind, input, sharesToSell, i, iter, stable>>
    /\ UNCHANGED <<setVars, callVars, batchVars, windowVars>>

----------------------------------------------------------------------------
(* Calculator.CalculateRSU: restricted stock release *)

RSUBasis(in, cfg) ==
    LET taxableGain == roundMoney(in.SharesReleased * in.VestPrice,
                                  ShareScale * PriceScale)
        federalTax == TaxLine(taxableGain, cfg.TaxRates.Federal)
        medicareTax == TaxLine(taxableGain, cfg.TaxRates.Medicare)
        socialSecTax == TaxLine(taxableGain, cfg.TaxRates.SocialSec)
        stateTax == TaxLine(taxableGain, cfg.TaxRates.State)
        localSDITax == TaxLine(taxableGain, cfg.TaxRates.LocalSDI)
    IN  [SharesReleased |-> in.SharesReleased,
         VestPrice |-> in.VestPrice,
         SalePrice |-> in.SalePrice,
         TaxableGain |-> taxableGain,
         FederalTax |-> federalTax,
         MedicareTax |-> medicareTax,
         SocialSecTax |-> socialSecTax,
         StateTax |-> stateTax,
         LocalSDITax |-> localSDITax,
         TotalTax |-> federalTax + medicareTax + socialSecTax + stateTax + localSDITax,
         BrokerCommission |-> 0,
         FlatFee |-> 0,
         TotalFees |-> 0,
         TotalCosts |-> 0,
         SharesToSell |-> 0,
         EstGrossProceeds |-> 0,
         Residual |-> 0,
         NetShares |-> 0]

\* mutant: the flat fee folded into the seed's base liability
RSUSeedWithFlatFee(res, cfg, in) ==
    LET baseLiability == res.TotalTax + Money(cfg.BrokerFees.FlatFee)
    IN  IF in.SalePrice > 0 THEN Shares(Ceil(baseLiability, Money(in.SalePrice))) ELSE 0

\* baseBurden and the initial guess
RSUSeed(res, cfg, in) ==
    LET baseBurden == res.TotalTax
    IN  IF in.SalePrice > 0 THEN Shares(Ceil(baseBurden, Money(in.SalePrice))) ELSE 0

\* one evaluation of the loop body for the current guess n
RSUIteration(res, cfg, in, n) ==
    LET sharesReleased == in.SharesReleased
        grossProceeds == Times(sharesReleased - n, in.SalePrice)
        commission == n * cfg.BrokerFees.CommissionRate
        finalCommission == Max(commission, Money(cfg.BrokerFees.MinimumFee))
        totalTransactionCosts == finalCommission + Money(cfg.BrokerFees.FlatFee)
        totalRequired == res.TotalTax + totalTransactionCosts
    IN  [commission |-> finalCommission,
         feesApplied |-> totalTransactionCosts,
         totalCosts |-> totalRequired,
         newSharesToSell |-> Shares(Ceil(totalRequired, Money(in.SalePrice))),
         grossProceeds |-> grossProceeds]

\* the assignments made when the guess is stable
RSUStable(res, cfg, n, it) ==
    [res EXCEPT !.SharesToSell = n,
                !.BrokerCommission = it.commission,
                !.FlatFee = Money(cfg.BrokerFees.FlatFee),
                !.TotalFees = it.feesApplied,
                !.TotalCosts = it.totalCosts,
                !.EstGrossProceeds = it.grossProceeds]

\* mutant: net shares taken from the local guess instead of the recorded count
RSUFinishLocalNet(res, in, n) ==
    [res EXCEPT !.Residual = Times(n, in.SalePrice) - res.TotalCosts,
                !.NetShares = res.SharesReleased - n]

\* the assignments after the loop; n is the local sharesToSell
RSUFinish(res, in, n) ==
    [res EXCEPT !.Residual = Times(n, in.SalePrice) - res.TotalCosts,
                !.NetShares = res.SharesReleased - res.SharesToSell]

CalculateRSU(in) ==
    /\ Idle
    /\ kind' = "rsu"
    /\ input' = in
    /\ prev' = (IF pc = "returned" /\ kind = "rsu" /\ input = in
                THEN result ELSE NoInput)
    /\ cfgAtCall' = config
    /\ updates' = 0
    /\ result' = RSUBasis(in, config)
    /\ sharesToSell' = RSUSeed(RSUBasis(in, config), config, in)
    /\ i' = 0
    /\ iter' = NoIter
    /\ stable' = FALSE
    /\ pc' = IF 0 < maxIterations THEN "loop" ELSE "final"
    /\ UNCHANGED <<config, setVars, batchVars, windowVars>>

CalculateRSULoop ==
    /\ pc = "loop"
    /\ kind = "rsu"
    /\ LET it == RSUIteration(result, config, input, sharesToSell)
       IN  /\ iter' = it
           /\ IF it.newSharesToSell = sharesToSell
              THEN /\ result' = RSUStable(result, config, sharesToSell, it)
                   /\ stable' = TRUE
                   /\ pc' = "final"
                   /\ UNCHANGED <<sharesToSell, i>>
              ELSE /\ sharesToSell' = it.newSharesToSell
                   /\ i' = i + 1
                   /\ pc' = IF i + 1 < maxIterations THEN "loop" ELSE "final"
                   /\ UNCHANGED <<result, stable>>
    /\ UNCHANGED <<config, kind, input, setVars, callVars, batchVars, windowVars>>

CalculateRSUReturn ==
    /\ pc = "final"
    /\ kind = "rsu"
    /\ result' = RSUFinish(result, input, sharesToSell)
    /\ pc' = "returned"
    /\ UNCHANGED <<config, kind, input, sharesToSell, i, iter, stable>>
    /\ UNCHANGED <<setVars, callVars, batchVars, windowVars>>

----------------------------------------------------------------------------
Next ==
    \/ \E rates \in TaxRateChoices : UpdateTaxRates(rates)
    \/ \E fees \in BrokerFeeChoices : UpdateBrokerFees(fees)
    \/ \E in \in Inputs : Calculate(in)
    \/ CalculateLoop
    \/ CalculateReturn
    \/ \E in \in RSUInputs : CalculateRSU(in)
    \/ CalculateRSULoop
    \/ CalculateRSUReturn

Spec == Init /\ [][Next]_vars

\* a call that was entered runs on: the goroutine executing Calculate or
\* CalculateRSU takes its next loop step and its return
SpecFair ==
    /\ Spec
    /\ WF_vars(CalculateLoop)
    /\ WF_vars(CalculateReturn)
    /\ WF_vars(CalculateRSULoop)
    /\ WF_vars(CalculateRSUReturn)

\* results handed back to the caller
ReturnedOption == pc = "returned" /\ kind = "option"
ReturnedRSU == pc = "returned" /\ kind = "rsu"

----------------------------------------------------------------------------
(* One Calculator shared by a goroutine in Calculate and goroutines that update
   it: nothing guards c.config, so an update may land between any two
   statements of Calculate.  Calculate is stepped statement by statement up to
   the loop; each loop iteration and each update stay one step. *)

\* updates that may land inside one call
MaxUpdates == 1

\* the example exercise, and 10 shares at 1.00 / 1.00
RaceInputs ==
    { [ExercisePrice |-> 10000, ExercisedShares |-> 1000, FMV |-> 50000],
      [ExercisePrice |-> 1000, ExercisedShares |-> 100, FMV |-> 1000] }

\* the statements computing the five tax lines, in program order
TaxSteps == <<"federal", "medicare", "socialSec", "state", "localSDI">>

StepAfter(step) ==
    CASE step = "federal" -> "medicare"
      [] step = "medicare" -> "socialSec"
      [] step = "socialSec" -> "state"
      [] step = "state" -> "localSDI"
      [] step = "localSDI" -> "seed"

\* every line taken from the federal rate
TaxStepFederalOnly(res, rates, step) ==
    CASE step = "federal" ->
           [res EXCEPT !.FederalTax = TaxLine(res.TaxableGain, rates.Federal)]
      [] step = "medicare" ->
           [res EXCEPT !.MedicareTax = TaxLine(res.TaxableGain, rates.Federal)]
      [] step = "socialSec" ->
           [res EXCEPT !.SocialSecTax = TaxLine(res.TaxableGain, rates.Federal)]
      [] step = "state" ->
           [res EXCEPT !.StateTax = TaxLine(res.TaxableGain, rates.Federal)]
      [] step = "localSDI" ->
           [res EXCEPT !.LocalSDITax = TaxLine(res.TaxableGain, rates.Federal)]

\* one of the five assignments result.XTax = roundMoney(result.TaxableGain * rate)
TaxStep(res, rates, step) ==
    CASE step = "federal" ->
           [res EXCEPT !.FederalTax = TaxLine(res.TaxableGain, rates.Federal)]
      [] step = "medicare" ->
           [res EXCEPT !.MedicareTax = TaxLine(res.TaxableGain, rates.Medicare)]
      [] step = "socialSec" ->
           [res EXCEPT !.SocialSecTax = TaxLine(res.TaxableGain, rates.SocialSec)]
      [] step = "state" ->
           [res EXCEPT !.StateTax = TaxLine(res.TaxableGain, rates.State)]
      [] step = "localSDI" ->
           [res EXCEPT !.LocalSDITax = TaxLine(res.TaxableGain, rates.LocalSDI)]

\* entry: the Result literal, OptionCost and TaxableGain; no tax line yet
CalculateEnter(in) ==
    /\ Idle
    /\ kind' = "option"
    /\ input' = in
    /\ prev' = NoInput
    /\ cfgAtCall' = config
    /\ updates' = 0
    /\ result' = [CalculateBasis(in, config) EXCEPT
                      !.FederalTax = 0, !.MedicareTax = 0, !.SocialSecTax = 0,
                      !.StateTax = 0, !.LocalSDITax = 0, !.TotalTax = 0]
    /\ sharesToSell' = 0
    /\ i' = 0
    /\ iter' = NoIter
    /\ stable' = FALSE
    /\ pc' = TaxSteps[1]
    /\ UNCHANGED <<config, setVars, batchVars, windowVars>>

\* one tax line, from the rates bound at this moment
CalculateTaxLine ==
    /\ pc \in {TaxSteps[k] : k \in 1..5}
    /\ kind = "option"
    /\ result' = TaxStep(result, config.TaxRates, pc)
    /\ pc' = StepAfter(pc)
    /\ UNCHANGED <<config, kind, input, sharesToSell, i, iter, stable>>
    /\ UNCHANGED <<setVars, callVars, batchVars, windowVars>>

\* TotalTax, baseLiability and the initial guess, from the fees bound at this moment
CalculateTotalAndSeed ==
    /\ pc = "seed"
    /\ kind = "option"
    /\ LET res == [result EXCEPT !.TotalTax =
                       result.FederalTax + result.MedicareTax + result.SocialSecTax
                       + result.StateTax + result.LocalSDITax]
       IN  /\ result' = res
           /\ sharesToSell' = CalculateSeed(res, config, input)
    /\ pc' = IF 0 < maxIterations THEN "loop" ELSE "final"
    /\ UNCHANGED <<config, kind, input, i, iter, stable>>
    /\ UNCHANGED <<setVars, callVars, batchVars, windowVars>>

CallInProgress == pc \notin {"idle", "returned"}

\* UpdateTaxRates from another goroutine while the call is in progress
UpdateTaxRatesDuringCall(rates) ==
    /\ CallInProgress
    /\ updates < MaxUpdates
    /\ config' = [config EXCEPT !.TaxRates = rates]
    /\ setTaxRates' = rates
    /\ updates' = updates + 1
    /\ UNCHANGED <<pc, kind, input, result, sharesToSell, i, iter, stable>>
    /\ UNCHANGED <<setBrokerFees, prev, cfgAtCall, batchVars, windowVars>>

\* UpdateBrokerFees from another goroutine while the call is in progress
UpdateBrokerFeesDuringCall(fees) ==
    /\ CallInProgress
    /\ updates < MaxUpdates
    /\ config' = [config EXCEPT !.BrokerFees = fees]
    /\ setBrokerFees' = fees
    /\ updates' = updates + 1
    /\ UNCHANGED <<pc, kind, input, result, sharesToSell, i, iter, stable>>
    /\ UNCHANGED <<setTaxRates, prev, cfgAtCall, batchVars, windowVars>>

InitShared == Constructed(NewDefaultCalculator) /\ NoBatch /\ NoWindow

NextShared ==
    \/ \E in \in RaceInputs : CalculateEnter(in)
    \/ CalculateTaxLine
    \/ CalculateTotalAndSeed
    \/ CalculateLoop
    \/ CalculateReturn
    \/ \E rates \in TaxRateChoices : UpdateTaxRatesDuringCall(rates)
    \/ \E fees \in BrokerFeeChoices : UpdateBrokerFeesDuringCall(fees)

SpecShared == InitShared /\ [][NextShared]_vars

----------------------------------------------------------------------------
(* batch.go: CalculateBatch and Summarize *)

\* the longest batch
MaxBatch == 2

\* the example exercise, 10 shares at 1.00 / 1.00, 10.5 shares at 7.25 / 7.00,
\* and 10 shares at 1.254 / 2.00 (a price with a fraction of a cent)
BatchInputs ==
    { [ExercisePrice |-> 10000, ExercisedShares |-> 1000, FMV |-> 50000],
      [ExercisePrice |-> 1000, ExercisedShares |-> 100, FMV |-> 1000],
      [ExercisePrice |-> 7250, ExercisedShares |-> 105, FMV |-> 7000],
      [ExercisePrice |-> 1254, ExercisedShares |-> 100, FMV |-> 2000] }

\* every []Input of up to MaxBatch elements
Batches == UNION { [1..n -> BatchInputs] : n \in 0..MaxBatch }

\* the zero Result that make([]Result, n) fills the slice with
ZeroResult ==
    [f \in DOMAIN CalculateBasis([ExercisePrice |-> 0, ExercisedShares |-> 0, FMV |-> 0],
                                 NewDefaultCalculator) |-> 0]

\* results = append(results, r) on the slice made with its full length
StoreResultAppended(rs, k, r) == Append(rs, r)

\* results[i] = r
StoreResult(rs, k, r) == [rs EXCEPT ![k] = r]

\* entry: results := make([]Result, len(inputs)), range index at the first element
CalculateBatch(ins) ==
    /\ bpc \in {"idle", "done"}
    /\ pc = "idle"
    /\ inputs' = ins
    /\ results' = [k \in 1..Len(ins) |-> ZeroResult]
    /\ idx' = 1
    /\ summary' = NoSummary
    /\ csv' = <<>>
    /\ bpc' = "batch"
    /\ UNCHANGED <<config, pc, kind, input, result, sharesToSell, i, iter, stable>>
    /\ UNCHANGED <<setVars, callVars, records, imported, windowVars>>

\* the loop body calls c.Calculate(input) ...
BatchCall ==
    /\ bpc = "batch"
    /\ pc = "idle"
    /\ idx <= Len(inputs)
    /\ Calculate(inputs[idx])

\* ... and stores what it returned in results[i]
BatchStore ==
    /\ bpc = "batch"
    /\ pc = "returned"
    /\ results' = StoreResult(results, idx, result)
    /\ idx' = idx + 1
    /\ pc' = "idle"
    /\ UNCHANGED <<config, kind, input, result, sharesToSell, i, iter, stable>>
    /\ UNCHANGED <<setVars, callVars, bpc, inputs, summary, csv, records, imported, windowVars>>

\* return BatchResult{Results: results}
BatchReturn ==
    /\ bpc = "batch"
    /\ pc = "idle"
    /\ idx > Len(inputs)
    /\ bpc' = "done"
    /\ UNCHANGED <<config, pc, kind, input, result, sharesToSell, i, iter, stable>>
    /\ UNCHANGED <<setVars, callVars, inputs, results, idx, summary, csv, records, imported, windowVars>>

\* a float64 quotient kept as a fraction; den = 0 is the NaN of 0 / 0
Quotient(num, den) == [num |-> num, den |-> den]

\* Summary{}
ZeroSummary ==
    [TotalExercisedShares |-> 0, TotalSharesToSell |-> 0, TotalNetShares |-> 0,
     TotalCosts |-> 0, TotalTaxes |-> 0, TotalBrokerFees |-> 0,
     AverageFMV |-> Quotient(0, 1), Count |-> 0]

\* the running sums while ranging over br.Results; sumFMV is AverageFMV before the division
StartSums(n) ==
    [TotalExercisedShares |-> 0, TotalSharesToSell |-> 0, TotalNetShares |-> 0,
     TotalCosts |-> 0, TotalTaxes |-> 0, TotalBrokerFees |-> 0,
     sumFMV |-> 0, Count |-> n]

\* a loop body that adds the commission where the applied fee belongs
AddResultCommission(sum, r) ==
    [sum EXCEPT !.TotalExercisedShares = @ + r.ExercisedShares,
                !.TotalSharesToSell = @ + r.SharesToSell,
                !.TotalNetShares = @ + r.NetShares,
                !.TotalCosts = @ + r.TotalCosts,
                !.TotalTaxes = @ + r.TotalTax,
                !.TotalBrokerFees = @ + r.BrokerCommission,
                !.sumFMV = @ + r.FMV]

\* one pass of the loop body
AddResult(sum, r) ==
    [sum EXCEPT !.TotalExercisedShares = @ + r.ExercisedShares,
                !.TotalSharesToSell = @ + r.SharesToSell,
                !.TotalNetShares = @ + r.NetShares,
                !.TotalCosts = @ + r.TotalCosts,
                !.TotalTaxes = @ + r.TotalTax,
                !.TotalBrokerFees = @ + r.BrokerFees,
                !.sumFMV = @ + r.FMV]

\* the loop over br.Results from element k on
RECURSIVE SumResults(_, _, _)
SumResults(sum, rs, k) ==
    IF k > Len(rs) THEN sum ELSE SumResults(AddResult(sum, rs[k]), rs, k + 1)

\* summary.AverageFMV /= float64(summary.Count), and the value returned
Averaged(sum) ==
    [TotalExercisedShares |-> sum.TotalExercisedShares,
     TotalSharesToSell |-> sum.TotalSharesToSell,
     TotalNetShares |-> sum.TotalNetShares,
     TotalCosts |-> sum.TotalCosts,
     TotalTaxes |-> sum.TotalTaxes,
     TotalBrokerFees |-> sum.TotalBrokerFees,
     AverageFMV |-> Quotient(sum.sumFMV, sum.Count),
     Count |-> sum.Count]

\* Summarize without the test for an empty batch
SummarizeUnguarded(rs) == Averaged(SumResults(StartSums(Len(rs)), rs, 1))

\* BatchResult.Summarize
SummarizeResults(rs) ==
    IF Len(rs) = 0
    THEN ZeroSummary
    ELSE Averaged(SumResults(StartSums(Len(rs)), rs, 1))

Summarize ==
    /\ bpc = "done"
    /\ summary' = SummarizeResults(results)
    /\ UNCHANGED <<config, pc, kind, input, result, sharesToSell, i, iter, stable>>
    /\ UNCHANGED <<setVars, callVars, bpc, inputs, results, idx, csv, records, imported, windowVars>>

----------------------------------------------------------------------------
(* batch.go: ToCSV and FromCSV.  A CSV stream is the sequence of its records,
   a record the sequence of its fields, a field the sequence of its
   characters; no field here holds a comma, a quote or a line break, so the
   writer emits each field as it is and the reader returns it as it is. *)

DigitChars == <<"0", "1", "2", "3", "4", "5", "6", "7", "8", "9">>

RECURSIVE Pow10(_)
Pow10(d) == IF d = 0 THEN 1 ELSE 10 * Pow10(d - 1)

\* num / den to the nearest integer, a tie to the even one; num >= 0
RoundHalfEven(num, den) ==
    LET q == num \div den
        r == num % den
    IN  IF 2 * r > den \/ (2 * r = den /\ q % 2 = 1) THEN q + 1 ELSE q

\* the decimal digits of n >= 0
RECURSIVE IntDigits(_)
IntDigits(n) ==
    IF n < 10
    THEN <<DigitChars[n + 1]>>
    ELSE Append(IntDigits(n \div 10), DigitChars[(n % 10) + 1])

\* the last width digits of f, zero-padded
RECURSIVE FracDigits(_, _)
FracDigits(f, width) ==
    IF width = 0
    THEN <<>>
    ELSE Append(FracDigits(f \div 10, width - 1), DigitChars[(f % 10) + 1])

\* fmt.Sprintf("%.<decimals>f", v / scale)
Sprintf(v, scale, decimals) ==
    LET a == IF v < 0 THEN -v ELSE v
        scaled == RoundHalfEven((a % scale) * Pow10(decimals), scale)
        carry == IF scaled = Pow10(decimals) THEN 1 ELSE 0
        whole == (a \div scale) + carry
        frac == IF carry = 1 THEN 0 ELSE scaled
    IN  (IF v < 0 THEN <<"-">> ELSE <<>>)
        \o IntDigits(whole)
        \o (IF decimals = 0 THEN <<>> ELSE <<".">> \o FracDigits(frac, decimals))

\* the header ToCSV writes
CSVHeader ==
    << <<"E", "x", "e", "r", "c", "i", "s", "e", " ", "P", "r", "i", "c", "e">>,
       <<"E", "x", "e", "r", "c", "i", "s", "e", "d", " ", "S", "h", "a", "r", "e", "s">>,
       <<"F", "M", "V">>,
       <<"S", "h", "a", "r", "e", "s", " ", "T", "o", " ", "S", "e", "l", "l">>,
       <<"N", "e", "t", " ", "S", "h", "a", "r", "e", "s">>,
       <<"T", "o", "t", "a", "l", " ", "C", "o", "s", "t", "s">>,
       <<"E", "s", "t", ".", " ", "G", "r", "o", "s", "s", " ", "P", "r", "o", "c", "e", "e", "d", "s">>,
       <<"T", "a", "x", "a", "b", "l", "e", " ", "G", "a", "i", "n">>,
       <<"T", "o", "t", "a", "l", " ", "T", "a", "x">>,
       <<"O", "p", "t", "i", "o", "n", " ", "C", "o", "s", "t">>,
       <<"B", "r", "o", "k", "e", "r", " ", "F", "e", "e", "s">> >>

\* the data row ToCSV writes for one Result
CSVRow(r) ==
    << Sprintf(r.ExercisePrice, PriceScale, 2),
       Sprintf(r.ExercisedShares, ShareScale, 2),
       Sprintf(r.FMV, PriceScale, 2),
       Sprintf(r.SharesToSell, ShareScale, 4),
       Sprintf(r.NetShares, ShareScale, 4),
       Sprintf(r.TotalCosts, MoneyScale, 2),
       Sprintf(r.EstGrossProceeds, MoneyScale, 2),
       Sprintf(r.TaxableGain, MoneyScale, 2),
       Sprintf(r.TotalTax, MoneyScale, 2),
       Sprintf(r.OptionCost, MoneyScale, 2),
       Sprintf(r.BrokerFees, MoneyScale, 2) >>

\* the records ToCSV writes for br.Results = rs
ToCSVRecords(rs) == <<CSVHeader>> \o [k \in 1..Len(rs) |-> CSVRow(rs[k])]

ToCSV ==
    /\ bpc = "done"
    /\ csv' = ToCSVRecords(results)
    /\ UNCHANGED <<config, pc, kind, input, result, sharesToSell, i, iter, stable>>
    /\ UNCHANGED <<setVars, callVars, bpc, inputs, results, idx, summary, records, imported, windowVars>>

\* strconv.ParseFloat(field, 64) on the characters used here (digits, sign,
\* point, letters that belong to no number, and the text NaN, which
\* ParseFloat reads as the float64 that is not a number): ok, nan, and the
\* value as mant / 10^decimals
ParseFloat(field) ==
    LET signed == Len(field) > 0 /\ field[1] \in {"-", "+"}
        body == IF signed THEN Tail(field) ELSE field
        points == {k \in 1..Len(body) : body[k] = "."}
        digits == SelectSeq(body, LAMBDA c : c # ".")
        isDigit(c) == \E d \in 1..10 : DigitChars[d] = c
        value(c) == (CHOOSE d \in 1..10 : DigitChars[d] = c) - 1
        ok == /\ Cardinality(points) <= 1
              /\ Len(digits) >= 1
              /\ \A k \in 1..Len(digits) : isDigit(digits[k])
    IN  IF field = <<"N", "a", "N">>
        THEN [ok |-> TRUE, nan |-> TRUE, mant |-> 0, decimals |-> 0]
        ELSE IF ~ok
        THEN [ok |-> FALSE, nan |-> FALSE, mant |-> 0, decimals |-> 0]
        ELSE [ok |-> TRUE,
              nan |-> FALSE,
              mant |-> (IF signed /\ field[1] = "-" THEN -1 ELSE 1)
                       * LET RECURSIVE Value(_)
                             Value(ds) == IF ds = <<>> THEN 0
                                          ELSE 10 * Value(SubSeq(ds, 1, Len(ds) - 1))
                                               + value(ds[Len(ds)])
                         IN  Value(digits),
              decimals |-> IF points = {} THEN 0
                           ELSE Len(body) - (CHOOSE k \in points : TRUE)]

\* a parsed number in units of 1 / scale
InUnits(p, scale) == (p.mant * scale) \div Pow10(p.decimals)

\* csv.Reader.Read with FieldsPerRecord left at 0: the first record fixes the
\* field count n, and a later record of another length comes with ErrFieldCount
ReadRecord(recs, pos, n) ==
    IF pos > Len(recs)
    THEN [err |-> "EOF", record |-> <<>>]
    ELSE IF n > 0 /\ Len(recs[pos]) # n
         THEN [err |-> "wrong number of fields", record |-> recs[pos]]
         ELSE [err |-> "", record |-> recs[pos]]

\* the loop of FromCSV from record pos on, n fields per record, acc = inputs so far
RECURSIVE FromCSVRows(_, _, _, _)
FromCSVRows(recs, pos, n, acc) ==
    LET rd == ReadRecord(recs, pos, n)
        record == rd.record
        exercisePrice == ParseFloat(record[1])
        exercisedShares == ParseFloat(record[2])
        fmv == ParseFloat(record[3])
    IN  IF rd.err = "EOF" THEN [inputs |-> acc, err |-> ""]
        ELSE IF rd.err # "" THEN [inputs |-> <<>>, err |-> "failed to read row"]
        ELSE IF Len(record) < 3 THEN FromCSVRows(recs, pos + 1, n, acc)
        ELSE IF ~exercisePrice.ok THEN [inputs |-> <<>>, err |-> "invalid exercise price"]
        ELSE IF ~exercisedShares.ok THEN [inputs |-> <<>>, err |-> "invalid exercised shares"]
        ELSE IF ~fmv.ok THEN [inputs |-> <<>>, err |-> "invalid FMV"]
        ELSE FromCSVRows(recs, pos + 1, n,
                 Append(acc, [ExercisePrice |-> InUnits(exercisePrice, PriceScale),
                              ExercisedShares |-> InUnits(exercisedShares, ShareScale),
                              FMV |-> InUnits(fmv, PriceScale)]))

\* FromCSV(r) for the stream recs: the ([]Input, error) it returns
FromCSVResult(recs) ==
    LET header == ReadRecord(recs, 1, 0)
    IN  IF header.err # ""
        THEN [inputs |-> <<>>, err |-> "failed to read header"]
        ELSE FromCSVRows(recs, 2, Len(header.record), <<>>)

\* the stream is read once
FromCSV(recs) ==
    /\ imported = NoImport
    /\ records' = recs
    /\ imported' = FromCSVResult(recs)
    /\ UNCHANGED <<config, pc, kind, input, result, sharesToSell, i, iter, stable>>
    /\ UNCHANGED <<setVars, callVars, bpc, inputs, results, idx, summary, csv, windowVars>>

\* the most data rows of an imported stream
MaxRows == 2

\* header rows of two, three and four columns
Headers == { SubSeq(CSVHeader, 1, n) : n \in 2..4 }

DataRows ==
    {
      \* the example exercise
      << <<"1", "0", ".", "0", "0">>, <<"1", "0", "0">>, <<"5", "0", ".", "0", "0">> >>,
      \* 10.5 shares at 1.00 / 1.00
      << <<"1", ".", "0", "0">>, <<"1", "0", ".", "5">>, <<"1", ".", "0", "0">> >>,
      \* a sign, no integer digits, no fraction digits
      << <<"-", "1", ".", "5">>, <<".", "5">>, <<"2", ".">> >>,
      \* a price that is no number
      << <<"x">>, <<"1", "0", "0">>, <<"5", "0", ".", "0", "0">> >>,
      \* shares and FMV that are no numbers
      << <<"1", "0", ".", "0", "0">>, <<"x">>, <<"x">> >>,
      \* an empty FMV
      << <<"1", "0", ".", "0", "0">>, <<"1", "0", "0">>, <<>> >>,
      \* two fields
      << <<"1", "0", ".", "0", "0">>, <<"1", "0", "0">> >>,
      \* four fields
      << <<"1", "0", ".", "0", "0">>, <<"1", "0", "0">>, <<"5", "0", ".", "0", "0">>, <<"7">> >>
    }

\* the empty stream, and a header followed by up to MaxRows data rows
CSVFiles ==
    { <<>> } \cup
    UNION { { <<h>> \o rows : rows \in [1..n -> DataRows] } :
            h \in Headers, n \in 0..MaxRows }

\* FromCSV reading back what ToCSV wrote
FromCSVOfExport ==
    /\ bpc = "done"
    /\ csv # <<>>
    /\ FromCSV(csv)

InitBatch ==
    /\ \E cfg \in { NewDefaultCalculator,
                    NewCalculator([TaxRates |-> DefaultTaxRates,
                                   BrokerFees |-> [CommissionRate |-> 300,
                                                   MinimumFee |-> 25000,
                                                   FlatFee |-> 10000]]) } :
          Constructed(cfg)
    /\ NoBatch
    /\ NoWindow

NextBatch ==
    \/ \E ins \in Batches : CalculateBatch(ins)
    \/ BatchCall
    \/ CalculateLoop
    \/ CalculateReturn
    \/ BatchStore
    \/ BatchReturn
    \/ Summarize
    \/ ToCSV
    \/ FromCSVOfExport

SpecBatch == InitBatch /\ [][NextBatch]_vars

InitImport == Constructed(NewDefaultCalculator) /\ NoBatch /\ NoWindow

NextImport == \E recs \in CSVFiles : FromCSV(recs)

SpecImport == InitImport /\ [][NextImport]_vars

----------------------------------------------------------------------------
(* Calculate and CalculateRSU as functions of the input and the configuration *)

\* the loop of Calculate from counter k with guess n, up to the break or the bound
RECURSIVE CalculateSolve(_, _, _, _, _)
CalculateSolve(res, cfg, in, n, k) ==
    IF k >= maxIterations
    THEN res
    ELSE LET it == CalculateIteration(res, cfg, in, n)
         IN  IF it.newSharesToSell = n
             THEN CalculateStable(res, n, it)
             ELSE CalculateSolve(res, cfg, in, it.newSharesToSell, k + 1)

\* the Result returned by Calculate(in) on a Calculator bound to cfg
CalculateResult(in, cfg) ==
    LET res == CalculateBasis(in, cfg)
    IN  CalculateFinish(CalculateSolve(res, cfg, in, CalculateSeed(res, cfg, in), 0), in)

\* the loop of CalculateRSU: the result and the local sharesToSell it ends with
RECURSIVE RSUSolve(_, _, _, _, _)
RSUSolve(res, cfg, in, n, k) ==
    IF k >= maxIterations
    THEN [res |-> res, n |-> n]
    ELSE LET it == RSUIteration(res, cfg, in, n)
         IN  IF it.newSharesToSell = n
             THEN [res |-> RSUStable(res, cfg, n, it), n |-> n]
             ELSE RSUSolve(res, cfg, in, it.newSharesToSell, k + 1)

\* the RSUResult returned by CalculateRSU(in) on a Calculator bound to cfg
CalculateRSUResult(in, cfg) ==
    LET res == RSUBasis(in, cfg)
        end == RSUSolve(res, cfg, in, RSUSeed(res, cfg, in), 0)
    IN  RSUFinish(end.res, in, end.n)

----------------------------------------------------------------------------
(* roundMoney on binary64.  The engine above rounds exact decimals.  In the Go
   code val is a float64 and val*100 is rounded to a float64 before math.Round
   sees it.  For an amount of whole thousandths that does not end in a half
   cent the product lies on the same side of the half as the decimal; for one
   that ends in a half cent the product is either exactly the half or the
   float64 next below it.  Amounts are in thousandths, results in cents. *)

MaxAmount == 2010

Amounts == (-MaxAmount)..MaxAmount

\* the amounts k/1000 >= 0 ending in a half cent, up to 2.025, for which the
\* binary64 product float64(k/1000) * 100 is below the half:
\* 0.145 * 100 = 14.499999999999998, 1.005 * 100 = 100.49999999999999, ...
\* while 2.005 * 100 = 200.5
ProductBelowHalf ==
    {145, 285, 565, 575, 1005, 1015, 1025, 1035, 1255, 1265, 1275}

\* mutant: math.Floor in place of math.Round
roundMoneyFloor(k) == k \div 10

\* roundMoney(val) for val = float64(k/1000): math.Round(val*100)/100 in cents
roundMoneyBinary64(k) ==
    LET a == IF k < 0 THEN -k ELSE k
        c == IF a \in ProductBelowHalf THEN a \div 10 ELSE Round(a, 10)
    IN  IF k < 0 THEN -c ELSE c

\* one call roundMoney(val)
RoundMoney ==
    /\ rounded = NoInput
    /\ rounded' = [cents |-> roundMoneyBinary64(val)]
    /\ UNCHANGED <<engineVars, val, tabVars, keypadVars>>

InitRound ==
    /\ Constructed(NewDefaultCalculator)
    /\ NoBatch
    /\ val \in Amounts
    /\ rounded = NoInput
    /\ entries = NoInput
    /\ labels = [option |-> NoInput, rsu |-> NoInput]
    /\ dialog = ""
    /\ invoked = NoInput
    /\ currentNum = <<"0">>
    /\ storedNum = 0
    /\ currentOp = ""
    /\ lastWasOp = FALSE
    /\ display = <<"0">>
    /\ history = <<>>

NextRound == RoundMoney

SpecRound == InitRound /\ [][NextRound]_vars

----------------------------------------------------------------------------
(* ui.go: the option tab and the RSU tab.  A click on Calculate (or Enter in
   an entry) runs the tab's calculateFunc on the texts the entries hold. *)

\* parseFloat of ui.go: the empty text is 0 without an error
parseFloat(s) ==
    IF s = <<>>
    THEN [ok |-> TRUE, nan |-> FALSE, mant |-> 0, decimals |-> 0]
    ELSE ParseFloat(s)

\* x <= 0 on float64, false when x is not a number
AtMostZero(p) == ~p.nan /\ p.mant <= 0

\* the texts the three required entries are filled with
SharesTexts == { <<>>, <<"x">>, <<"0">>, <<"1", "0">>, <<"N", "a", "N">> }

PriceTexts == { <<>>, <<"-", "5">>, <<"0">>, <<"2", ".", "5">>, <<"N", "a", "N">> }

FMVTexts == { <<>>, <<"x">>, <<"-", "5">>, <<"1", "0">>, <<"N", "a", "N">> }

\* the rate and fee entries keep the texts they are created with; their parse
\* errors are dropped
EntryRate(s) == InUnits(parseFloat(s), RateScale)

EntryFee(s) == InUnits(parseFloat(s), PriceScale)

TabTaxRates ==
    [Federal |-> EntryRate(<<"0", ".", "2", "2">>),
     Medicare |-> EntryRate(<<"0", ".", "0", "1", "4", "5">>),
     SocialSec |-> EntryRate(<<"0", ".", "0", "6", "2">>),
     State |-> EntryRate(<<"0", ".", "0", "0">>),
     LocalSDI |-> EntryRate(<<"0", ".", "0", "0">>)]

\* the Config literal of the option tab: no FlatFee
STCConfig ==
    [TaxRates |-> TabTaxRates,
     BrokerFees |-> [CommissionRate |-> EntryRate(<<"0", ".", "0", "3">>),
                     MinimumFee |-> EntryFee(<<"2", "5", ".", "0", "0">>),
                     FlatFee |-> 0]]

\* the Config literal of the RSU tab
RSUConfig ==
    [TaxRates |-> TabTaxRates,
     BrokerFees |-> [CommissionRate |-> EntryRate(<<"0", ".", "0", "3">>),
                     MinimumFee |-> EntryFee(<<"2", "5", ".", "0", "0">>),
                     FlatFee |-> EntryFee(<<"0", ".", "0", "0">>)]]

NaNText == <<"N", "a", "N">>

\* fmt.Sprintf("$%.2f", v) of computed money
Dollar(v) == <<"$">> \o Sprintf(v, MoneyScale, 2)

\* the label texts of the option tab after Calculate(input).  With an input
\* that is not a number every tax line is NaN, the loop never sees two equal
\* guesses and the fields set at the break keep their zero.
STCLabels(p1, p2, p3) ==
    IF p1.nan \/ p2.nan \/ p3.nan
    THEN [NetShares |-> IF p2.nan THEN NaNText
                        ELSE Sprintf(InUnits(p2, ShareScale), ShareScale, 0),
          Residual |-> IF p3.nan THEN <<"$">> \o NaNText ELSE Dollar(0),
          SharesSold |-> Sprintf(0, ShareScale, 0),
          TotalCost |-> Dollar(0),
          GrossProceeds |-> IF p3.nan THEN <<"$">> \o NaNText ELSE Dollar(0),
          Taxes |-> <<"$">> \o NaNText,
          Fees |-> Dollar(0)]
    ELSE LET res == CalculateResult([ExercisePrice |-> InUnits(p1, PriceScale),
                                     ExercisedShares |-> InUnits(p2, ShareScale),
                                     FMV |-> InUnits(p3, PriceScale)],
                                    NewCalculator(STCConfig))
         IN  [NetShares |-> Sprintf(res.NetShares, ShareScale, 0),
              Residual |-> Dollar(res.Residual),
              SharesSold |-> Sprintf(res.SharesToSell, ShareScale, 0),
              TotalCost |-> Dollar(res.TotalCosts),
              GrossProceeds |-> Dollar(res.EstGrossProceeds),
              Taxes |-> Dollar(res.TotalTax),
              Fees |-> Dollar(res.BrokerFees)]

\* calculateFunc of the option tab
STCCalculateFunc(exShares, exPrice, fmv) ==
    LET p1 == parseFloat(exPrice)
        p3 == parseFloat(fmv)
        p2 == parseFloat(exShares)
    IN  /\ entries' = [tab |-> "option", texts |-> <<exShares, exPrice, fmv>>]
        /\ IF ~p1.ok \/ ~p2.ok \/ ~p3.ok
           THEN /\ dialog' = "Please enter valid numbers for Price, Shares, and FMV"
                /\ invoked' = NoInput
                /\ UNCHANGED labels
           ELSE IF AtMostZero(p1) \/ AtMostZero(p2) \/ AtMostZero(p3)
           THEN /\ dialog' = "Price, Shares, and FMV must be greater than 0"
                /\ invoked' = NoInput
                /\ UNCHANGED labels
           ELSE /\ dialog' = ""
                /\ invoked' = [method |-> "Calculate",
                               shares |-> p2, price |-> p1, divisor |-> p3]
                /\ labels' = [labels EXCEPT !.option = STCLabels(p1, p2, p3)]
        /\ UNCHANGED <<engineVars, roundVars, keypadVars>>

\* the label texts of the RSU tab after CalculateRSU(input).  With an input
\* that is not a number the local sharesToSell becomes NaN and the loop never
\* sees two equal guesses.
RSULabels(p1, p2, p3) ==
    IF p1.nan \/ p2.nan \/ p3.nan
    THEN LET gain == roundMoney(InUnits(p1, ShareScale) * InUnits(p2, PriceScale),
                                ShareScale * PriceScale)
             noGain == p1.nan \/ p2.nan
         IN  [NetShares |-> IF p1.nan THEN NaNText
                            ELSE Sprintf(InUnits(p1, ShareScale), ShareScale, 0),
              Residual |-> <<"$">> \o NaNText,
              TotalValue |-> IF noGain THEN <<"$">> \o NaNText ELSE Dollar(gain),
              SharesSold |-> Sprintf(0, ShareScale, 0),
              TotalCost |-> Dollar(0),
              GrossProceeds |-> Dollar(0),
              Taxes |-> IF noGain THEN <<"$">> \o NaNText
                        ELSE Dollar(RSUBasis([SharesReleased |-> InUnits(p1, ShareScale),
                                              VestPrice |-> InUnits(p2, PriceScale),
                                              SalePrice |-> 0],
                                             NewCalculator(RSUConfig)).TotalTax),
              Fees |-> Dollar(0)]
    ELSE LET res == CalculateRSUResult([SharesReleased |-> InUnits(p1, ShareScale),
                                        VestPrice |-> InUnits(p2, PriceScale),
                                        SalePrice |-> InUnits(p3, PriceScale)],
                                       NewCalculator(RSUConfig))
         IN  [NetShares |-> Sprintf(res.NetShares, ShareScale, 0),
              Residual |-> Dollar(res.Residual),
              TotalValue |-> Dollar(res.TaxableGain),
              SharesSold |-> Sprintf(res.SharesToSell, ShareScale, 0),
              TotalCost |-> Dollar(res.TotalCosts),
              GrossProceeds |-> Dollar(res.EstGrossProceeds),
              Taxes |-> Dollar(res.TotalTax),
              Fees |-> Dollar(res.TotalFees)]

\* calculateFunc of the RSU tab
RSUCalculateFunc(sharesReleased, vestPrice, salePrice) ==
    LET p1 == parseFloat(sharesReleased)
        p2 == parseFloat(vestPrice)
        p3 == parseFloat(salePrice)
    IN  /\ entries' = [tab |-> "rsu", texts |-> <<sharesReleased, vestPrice, salePrice>>]
        /\ IF ~p1.ok \/ ~p2.ok \/ ~p3.ok
           THEN /\ dialog' = "Please enter valid numbers"
                /\ invoked' = NoInput
                /\ UNCHANGED labels
           ELSE IF AtMostZero(p1) \/ AtMostZero(p2) \/ AtMostZero(p3)
           THEN /\ dialog' = "Shares and Prices must be greater than 0"
                /\ invoked' = NoInput
                /\ UNCHANGED labels
           ELSE /\ dialog' = ""
                /\ invoked' = [method |-> "CalculateRSU",
                               shares |-> p1, price |-> p2, divisor |-> p3]
                /\ labels' = [labels EXCEPT !.rsu = RSULabels(p1, p2, p3)]
        /\ UNCHANGED <<engineVars, roundVars, keypadVars>>

InitTabs == Constructed(NewDefaultCalculator) /\ NoBatch /\ NoWindow

NextTabs ==
    \/ \E s \in SharesTexts, p \in PriceTexts, f \in FMVTexts : STCCalculateFunc(s, p, f)
    \/ \E s \in SharesTexts, p \in PriceTexts, f \in FMVTexts : RSUCalculateFunc(s, p, f)

SpecTabs == InitTabs /\ [][NextTabs]_vars

----------------------------------------------------------------------------
(* ui.go: the keypad of the calculator tab.  currentNum is the sequence of its
   characters; storedNum and the operands are exact decimals in 1/KeyScale.
   A key press whose operand would grow beyond MaxOperandLen characters, or
   whose result is not a decimal of the model (more than KeyDecimals places,
   or above MaxKeyValue), is left out. *)

KeyDecimals == 2

KeyScale == 100

MaxOperandLen == 3

\* the largest stored operand or result, in whole units
MaxKeyValue == 4

DigitKeys == {"0", "2"}

NumKeys == DigitKeys \cup {"."}

OpKeys == {"+", "-", "*", "/"}

ErrorText == <<"E", "r", "r", "o", "r">>

KeypadCleared ==
    /\ currentNum = <<"0">>
    /\ storedNum = 0
    /\ currentOp = ""
    /\ lastWasOp = FALSE

\* strings.Contains(s, ".")
ContainsPoint(s) == \E k \in 1..Len(s) : s[k] = "."

\* digits without the zeros at the end
RECURSIVE TrimZeros(_)
TrimZeros(ds) ==
    IF ds # <<>> /\ ds[Len(ds)] = "0" THEN TrimZeros(SubSeq(ds, 1, Len(ds) - 1)) ELSE ds

\* fmt.Sprintf("%.0f", v) of a whole v, fmt.Sprintf("%g", v) of any v
FormatG(v) ==
    LET a == IF v < 0 THEN -v ELSE v
        whole == IntDigits(a \div KeyScale)
        frac == TrimZeros(FracDigits(a % KeyScale, KeyDecimals))
    IN  (IF v < 0 THEN <<"-">> ELSE <<>>)
        \o whole \o (IF frac = <<>> THEN <<>> ELSE <<".">> \o frac)

\* val, _ := strconv.ParseFloat(s, 64): 0 for a text that is no number
KeyValue(s) == IF ParseFloat(s).ok THEN InUnits(ParseFloat(s), KeyScale) ELSE 0

\* storedNum op val: whether it is a division by zero, whether the result is a
\* decimal of the model, and the result
Evaluate(a, op, b) ==
    LET absA == IF a < 0 THEN -a ELSE a
        absB == IF b < 0 THEN -b ELSE b
        sign == IF (a < 0) = (b < 0) THEN 1 ELSE -1
    IN
    [zeroDivide |-> op = "/" /\ b = 0,
     exact |-> CASE op = "*" -> (a * b) % KeyScale = 0
                 [] op = "/" -> b # 0 /\ (absA * KeyScale) % absB = 0
                 [] OTHER -> TRUE,
     value |-> CASE op = "+" -> a + b
                 [] op = "-" -> a - b
                 [] op = "*" -> (a * b) \div KeyScale
                 [] op = "/" -> IF b = 0 THEN 0 ELSE sign * ((absA * KeyScale) \div absB)
                 [] OTHER -> 0]

InKeyRange(v) == -(MaxKeyValue * KeyScale) <= v /\ v <= MaxKeyValue * KeyScale

\* calculate(): currentNum, currentOp and the display after it
calculate ==
    IF currentOp = ""
    THEN [currentNum |-> currentNum, currentOp |-> currentOp, display |-> display,
          inRange |-> TRUE]
    ELSE LET e == Evaluate(storedNum, currentOp, KeyValue(currentNum))
         IN  IF e.zeroDivide
             THEN [currentNum |-> ErrorText, currentOp |-> currentOp,
                   display |-> ErrorText, inRange |-> TRUE]
             ELSE [currentNum |-> FormatG(e.value), currentOp |-> "",
                   display |-> FormatG(e.value),
                   inRange |-> e.exact /\ InKeyRange(e.value)]

\* mutant: a key is appended to what is shown, whatever came before
onNumAppending(n) ==
    /\ Len(currentNum) < MaxOperandLen
    /\ currentNum' = currentNum \o <<n>>
    /\ display' = currentNum \o <<n>>
    /\ lastWasOp' = FALSE
    /\ UNCHANGED <<storedNum, currentOp, history>>
    /\ UNCHANGED <<engineVars, roundVars, tabVars>>

onNum(n) ==
    LET fresh == IF lastWasOp THEN <<"0">> ELSE currentNum
    IN  /\ lastWasOp' = FALSE
        /\ IF fresh = <<"0">> /\ n # "."
           THEN /\ currentNum' = <<n>>
                /\ display' = <<n>>
           ELSE IF n = "." /\ ContainsPoint(fresh)
           THEN /\ currentNum' = fresh
                /\ UNCHANGED display
           ELSE /\ Len(fresh) < MaxOperandLen
                /\ currentNum' = fresh \o <<n>>
                /\ display' = fresh \o <<n>>
        /\ UNCHANGED <<storedNum, currentOp, history>>
        /\ UNCHANGED <<engineVars, roundVars, tabVars>>

onOp(op) ==
    LET c == IF currentOp # "" /\ ~lastWasOp
             THEN calculate
             ELSE [currentNum |-> currentNum, currentOp |-> currentOp,
                   display |-> display, inRange |-> TRUE]
        err == ~ParseFloat(c.currentNum).ok
    IN  /\ c.inRange
        /\ InKeyRange(KeyValue(c.currentNum))
        /\ storedNum' = KeyValue(c.currentNum)
        /\ currentNum' = IF err THEN <<"0">> ELSE c.currentNum
        /\ display' = c.display
        /\ currentOp' = op
        /\ lastWasOp' = TRUE
        /\ history' = FormatG(KeyValue(c.currentNum)) \o <<" ", op>>
        /\ UNCHANGED <<engineVars, roundVars, tabVars>>

onClear ==
    /\ currentNum' = <<"0">>
    /\ storedNum' = 0
    /\ currentOp' = ""
    /\ lastWasOp' = FALSE
    /\ history' = <<>>
    /\ display' = <<"0">>
    /\ UNCHANGED <<engineVars, roundVars, tabVars>>

onEq ==
    /\ calculate.inRange
    /\ history' = <<>>
    /\ currentNum' = calculate.currentNum
    /\ currentOp' = calculate.currentOp
    /\ display' = calculate.display
    /\ lastWasOp' = TRUE
    /\ UNCHANGED storedNum
    /\ UNCHANGED <<engineVars, roundVars, tabVars>>

InitKeypad == Constructed(NewDefaultCalculator) /\ NoBatch /\ NoWindow

NextKeypad ==
    \/ \E n \in NumKeys : onNum(n)
    \/ \E op \in OpKeys : onOp(op)
    \/ onEq
    \/ onClear

SpecKeypad == InitKeypad /\ [][NextKeypad]_vars

----------------------------------------------------------------------------
(* Properties of the calculation engine *)

\* the price the solver divides by, as money
SolvePrice == IF kind = "option" THEN Money(input.FMV) ELSE Money(input.SalePrice)
\* the share count given to the solver
InputShares == IF kind = "option" THEN input.ExercisedShares ELSE input.SharesReleased
Returned == ReturnedOption \/ ReturnedRSU

ExampleInput == [ExercisePrice |-> 10000, ExercisedShares |-> 1000, FMV |-> 50000]
ExampleCall == kind = "option" /\ input = ExampleInput /\ config = NewDefaultCalculator

\* C1: with the default rates and fees, Calculate on 100 shares at 10.00 with
\* FMV 50.00 seeds the share count at 44, moves it to 45, finds 45 stable and
\* returns OptionCost 1000.00, TaxableGain 4000.00, TotalTax 1186.00,
\* BrokerFees 25.00, TotalCosts 2211.00, SharesToSell 45,
\* EstGrossProceeds 2250.00, Residual 39.00 and NetShares 55.
C1_EndToEndExample ==
    ExampleCall =>
        /\ pc = "loop" =>
              \/ i = 0 /\ sharesToSell = Shares(44)
              \/ i = 1 /\ sharesToSell = Shares(45)
        /\ pc = "final" => stable /\ i = 1 /\ sharesToSell = Shares(45)
        /\ pc = "returned" =>
              /\ result.OptionCost = Dollars(1000)
              /\ result.TaxableGain = Dollars(4000)
              /\ result.TotalTax = Dollars(1186)
              /\ result.BrokerFees = Dollars(25)
              /\ result.TotalCosts = Dollars(2211)
              /\ result.SharesToSell = Shares(45)
              /\ result.EstGrossProceeds = Dollars(2250)
              /\ result.Residual = Dollars(39)
              /\ result.NetShares = Shares(55)

C1_Witness ==
    ExampleCall /\ pc = "returned" /\ stable /\ i = 1 /\ result.SharesToSell = Shares(45)

\* ceil(TotalCosts / price) == SharesToSell, stated on whole shares:
\* (n - 1) * price < TotalCosts <= n * price
Recheck ==
    /\ result.SharesToSell % ShareScale = 0
    /\ LET n == result.SharesToSell \div ShareScale
       IN  (n - 1) * SolvePrice < result.TotalCosts /\ result.TotalCosts <= n * SolvePrice

\* C2 as stated: for positive price, share count and FMV (sale price) and every
\* configuration, the returned SharesToSell is a non-negative whole number with
\* ceil(TotalCosts / price) == SharesToSell.
C2_NonNegativeWholeFixedPoint ==
    Returned => Recheck /\ result.SharesToSell >= 0

\* C2 amended: the returned SharesToSell is a whole number with
\* ceil(TotalCosts / price) == SharesToSell; it is non-negative exactly when
\* TotalCosts > -price, so always when the reported TotalCosts is not negative.
C2_WholeFixedPoint ==
    Returned =>
        /\ Recheck
        /\ result.SharesToSell >= 0 <=> result.TotalCosts > -SolvePrice
        /\ result.TotalCosts >= 0 => result.SharesToSell >= 0

C2_Witness ==
    ReturnedRSU /\ stable /\ i >= 1 /\ result.SharesToSell > 0 /\ result.TotalCosts > 0

\* base costs of the call: what must be covered before any fee
BaseCosts == IF kind = "option" THEN result.OptionCost + result.TotalTax ELSE result.TotalTax
\* liability(k) = base costs + max(k * commissionRate, minimumFee) + flat fee
Liability(k) ==
    BaseCosts + Max(Shares(k) * config.BrokerFees.CommissionRate,
                    Money(config.BrokerFees.MinimumFee))
              + Money(config.BrokerFees.FlatFee)
\* selling k whole shares covers the liability computed with k's own fees
Covers(k) == k * SolvePrice >= Liability(k)

\* C3: the returned share count is the smallest non-negative whole n with
\* n * price >= liability(n): it covers, and no whole m with 0 <= m < n does;
\* stated for solves that reached a fixed point on non-negative base costs.
C3_SmallestCoveringCount ==
    (Returned /\ stable /\ BaseCosts >= 0) =>
        LET n == result.SharesToSell \div ShareScale
        IN  /\ n >= 0
            /\ Covers(n)
            /\ \A m \in 0..(n - 1) : ~Covers(m)

\* C4: in the option solver the flat fee is counted exactly once: a converged
\* result has TotalCosts == OptionCost + TotalTax + FlatFee + BrokerFees.
C4_FlatFeeCountedOnce ==
    (ReturnedOption /\ stable) =>
        result.TotalCosts = result.OptionCost + result.TotalTax
                            + Money(config.BrokerFees.FlatFee) + result.BrokerFees

\* C5: when the loop runs out of iterations without a fixed point, the result
\* reports the last iteration: the last computed share count, and the last
\* commission, applied fee and total liability.
C5_LastValuesReported ==
    (Returned /\ ~stable) =>
        /\ result.SharesToSell = sharesToSell
        /\ result.BrokerCommission = iter.commission
        /\ result.TotalCosts = iter.totalCosts
        /\ kind = "option" => result.BrokerFees = iter.feesApplied
        /\ kind = "rsu" => result.TotalFees = iter.feesApplied

C7_OptionResidual ==
    ReturnedOption =>
        /\ result.Residual = result.EstGrossProceeds - result.TotalCosts
        /\ result.EstGrossProceeds = Times(result.SharesToSell, input.FMV)

C7_Witness ==
    ReturnedOption /\ stable /\ result.SharesToSell > 0 /\ result.Residual > 0

\* C8: every RSUResult has Residual == SharesToSell * SalePrice - TotalCosts,
\* on the SharesToSell and TotalCosts reported in that same result.
C8_RSUResidual ==
    ReturnedRSU =>
        result.Residual = Times(result.SharesToSell, input.SalePrice) - result.TotalCosts

\* C9: EstGrossProceeds is the gross proceeds of the sale, SharesToSell times
\* the per-share price, in the option result and in the RSU result alike.
C9_GrossProceedsOfSale ==
    Returned =>
        result.EstGrossProceeds =
            Times(result.SharesToSell,
                  IF kind = "option" THEN input.FMV ELSE input.SalePrice)

Abs(x) == IF x >= 0 THEN x ELSE -x

\* total cash required for guess n: TotalTax + max(n * rate, minimum) + flat fee
RSURequired(n) ==
    result.TotalTax + Max(n * config.BrokerFees.CommissionRate,
                          Money(config.BrokerFees.MinimumFee))
                    + Money(config.BrokerFees.FlatFee)

\* the share count s is ceil(amount / sale price)
IsCeilOfSalePrice(s, amount) ==
    /\ s % ShareScale = 0
    /\ ((s \div ShareScale) - 1) * Money(input.SalePrice) < amount
    /\ amount <= (s \div ShareScale) * Money(input.SalePrice)

C10_RSUState ==
    kind = "rsu" =>
        /\ LET exact == Times(input.SharesReleased, input.VestPrice)
           IN  /\ result.TaxableGain % CentTicks = 0
               /\ 2 * Abs(result.TaxableGain - exact) <= CentTicks
               /\ 2 * Abs(result.TaxableGain - exact) = CentTicks
                     => Abs(result.TaxableGain) > Abs(exact)
        /\ (pc = "loop" /\ i = 0) => IsCeilOfSalePrice(sharesToSell, result.TotalTax)
        /\ (pc = "returned" /\ stable) =>
              /\ result.FlatFee = Money(config.BrokerFees.FlatFee)
              /\ result.TotalFees = result.BrokerCommission + result.FlatFee
              /\ result.TotalCosts = result.TotalTax + result.TotalFees
              /\ result.TotalCosts = RSURequired(result.SharesToSell)

C10_RSUStep ==
    (kind = "rsu" /\ pc = "loop") =>
        /\ iter'.totalCosts = RSURequired(sharesToSell)
        /\ IsCeilOfSalePrice(iter'.newSharesToSell, RSURequired(sharesToSell))
        /\ sharesToSell' = iter'.newSharesToSell

----------------------------------------------------------------------------
(* Tax lines *)

InCall == pc \in {"loop", "final", "returned"}

TaxLinesOf(res) ==
    <<res.FederalTax, res.MedicareTax, res.SocialSecTax, res.StateTax, res.LocalSDITax>>

RatesOf(rates) ==
    <<rates.Federal, rates.Medicare, rates.SocialSec, rates.State, rates.LocalSDI>>

\* c is num / den rounded to the nearest integer, a tie going away from zero
IsNearest(c, num, den) ==
    LET d == Abs(num - c * den)
    IN  /\ 2 * d <= den
        /\ (2 * d = den) => (Abs(c * den) > Abs(num))

\* the cents of TaxableGain * (sum of the five rates), rounded once
RoundedOnce(gain, rates) ==
    LET g == Abs(gain) \div CentTicks
        r == RatesOf(rates)
        whole == ((g * r[1]) \div RateScale) + ((g * r[2]) \div RateScale)
                 + ((g * r[3]) \div RateScale) + ((g * r[4]) \div RateScale)
                 + ((g * r[5]) \div RateScale)
        rest == ((g * r[1]) % RateScale) + ((g * r[2]) % RateScale)
                + ((g * r[3]) % RateScale) + ((g * r[4]) % RateScale)
                + ((g * r[5]) % RateScale)
        cents == whole + Round(rest, RateScale)
    IN  IF gain >= 0 THEN CentTicks * cents ELSE -(CentTicks * cents)

\* C11: during and after a call of Calculate or CalculateRSU, each of the five
\* tax lines is a whole number of cents, the nearest one to TaxableGain times
\* its rate (a tie away from zero), and TotalTax is the sum of the five lines.
C11_TaxLines ==
    InCall =>
        /\ \A k \in 1..5 :
              /\ TaxLinesOf(result)[k] % CentTicks = 0
              /\ IsNearest(TaxLinesOf(result)[k] \div CentTicks,
                           (result.TaxableGain \div CentTicks) * RatesOf(config.TaxRates)[k],
                           RateScale)
        /\ result.TotalTax = TaxLinesOf(result)[1] + TaxLinesOf(result)[2]
                             + TaxLinesOf(result)[3] + TaxLinesOf(result)[4]
                             + TaxLinesOf(result)[5]

\* a returned result whose TotalTax differs
\* from the single rounding of the unrounded sum
C11_Witness ==
    /\ Returned
    /\ result.TotalTax # 0
    /\ result.TotalTax # RoundedOnce(result.TaxableGain, config.TaxRates)

----------------------------------------------------------------------------
(* Repeated calls and the bound configuration *)

\* C12: a call that directly follows a returned call of the same method with
\* the same input, no update between them, returns the same result, field by
\* field; and from the entry of a call to its return GetConfig is what it was
\* when the call was entered.
C12_Repeatable ==
    /\ InCall => GetConfig = cfgAtCall
    /\ (Returned /\ prev # NoInput) => result = prev

\* a second identical call has returned a converged solve that sells shares
C12_Witness ==
    /\ Returned
    /\ prev # NoInput
    /\ stable
    /\ result.SharesToSell > 0
    /\ GetConfig = cfgAtCall

\* the configuration made of the most recently set rates and fees
LastSet == [TaxRates |-> setTaxRates, BrokerFees |-> setBrokerFees]

\* C13: when calls do not overlap, GetConfig is always the rates of the last
\* UpdateTaxRates (of the construction if there was none) together with the
\* fees of the last UpdateBrokerFees (of the construction if there was none),
\* so neither update touches the other half; and every returned result is the
\* one Calculate / CalculateRSU gives for its input under that configuration.
C13_LastSetConfiguration ==
    /\ GetConfig = LastSet
    /\ ReturnedOption => result = CalculateResult(input, LastSet)
    /\ ReturnedRSU => result = CalculateRSUResult(input, LastSet)

\* both updates ran after a call: GetConfig shows new rates and new fees
C13_Witness ==
    /\ pc = "idle"
    /\ kind # "none"
    /\ GetConfig.TaxRates # cfgAtCall.TaxRates
    /\ GetConfig.BrokerFees # cfgAtCall.BrokerFees
    /\ GetConfig = LastSet

----------------------------------------------------------------------------
(* A shared Calculator *)

\* C14: on a Calculator shared without synchronization, a call that no update
\* overlapped returns the result of Calculate under the bound configuration,
\* and a call that one update overlapped returns tax lines each computed from
\* the rates before or the rates after that update; the witness is a call
\* overlapped by one update whose result is neither Calculate under the
\* configuration before the update nor Calculate under the one after it.
C14_SharedCalculator ==
    /\ (ReturnedOption /\ updates = 0) => result = CalculateResult(input, GetConfig)
    /\ (ReturnedOption /\ updates = 1) =>
          \A k \in 1..5 :
             TaxLinesOf(result)[k] \in
                 { TaxLine(result.TaxableGain, RatesOf(cfgAtCall.TaxRates)[k]),
                   TaxLine(result.TaxableGain, RatesOf(GetConfig.TaxRates)[k]) }

C14_Witness ==
    /\ ReturnedOption
    /\ updates = 1
    /\ result # CalculateResult(input, cfgAtCall)
    /\ result # CalculateResult(input, GetConfig)

----------------------------------------------------------------------------
(* Batches and summaries *)

\* C15: the BatchResult holds one Result per Input, and Results[k] is the
\* Result of Calculate(inputs[k]) under the Calculator's configuration, for
\* itself alone; while the batch runs the elements already stored are those
\* Results; an empty batch gives an empty Results.
C15_BatchInOrder ==
    /\ bpc = "done" =>
          /\ Len(results) = Len(inputs)
          /\ \A k \in 1..Len(inputs) : results[k] = CalculateResult(inputs[k], GetConfig)
    /\ bpc = "batch" =>
          \A k \in 1..(idx - 1) : results[k] = CalculateResult(inputs[k], GetConfig)

\* a finished batch of two different inputs with two different results
C15_Witness ==
    /\ bpc = "done"
    /\ Len(inputs) = 2
    /\ Len(results) = 2
    /\ inputs[1] # inputs[2]
    /\ results[1] # results[2]
    /\ results[2].SharesToSell > 0

\* C16: the Summary of a BatchResult without results has Count 0, every sum 0
\* and an AverageFMV of 0 that no division by the count produced.
C16_EmptySummary ==
    (summary # NoSummary /\ Len(results) = 0) =>
        /\ summary.Count = 0
        /\ summary.TotalExercisedShares = 0
        /\ summary.TotalSharesToSell = 0
        /\ summary.TotalNetShares = 0
        /\ summary.TotalCosts = 0
        /\ summary.TotalTaxes = 0
        /\ summary.TotalBrokerFees = 0
        /\ summary.AverageFMV.num = 0
        /\ summary.AverageFMV.den # 0

\* Summarize ran on the BatchResult of an empty batch
C16_Witness ==
    /\ bpc = "done"
    /\ inputs = <<>>
    /\ results = <<>>
    /\ summary # NoSummary
    /\ summary.Count = 0

\* the sum of one field over a sequence of results, taken from the last element
RECURSIVE FieldSum(_, _)
FieldSum(rs, field) ==
    IF rs = <<>> THEN 0
    ELSE FieldSum(SubSeq(rs, 1, Len(rs) - 1), field) + rs[Len(rs)][field]

----------------------------------------------------------------------------
(* CSV export and import *)

\* the first three fields of a row all parse as numbers
RowParses(row) == \A j \in 1..3 : ParseFloat(row[j]).ok

\* the Input a row of three or more parsable fields stands for
InputOf(row) ==
    [ExercisePrice |-> InUnits(ParseFloat(row[1]), PriceScale),
     ExercisedShares |-> InUnits(ParseFloat(row[2]), ShareScale),
     FMV |-> InUnits(ParseFloat(row[3]), PriceScale)]

\* the Inputs of the rows of three or more fields, in row order
RECURSIVE InputsOf(_)
InputsOf(rows) ==
    IF rows = <<>> THEN <<>>
    ELSE (IF Len(Head(rows)) >= 3 THEN <<InputOf(Head(rows))>> ELSE <<>>)
         \o InputsOf(Tail(rows))

\* C18: when every data row either has fewer than three fields or is a row of
\* the header's length whose first three fields parse, FromCSV succeeds and
\* returns the Inputs of the rows of three or more fields, in row order: the
\* short rows are skipped.
C18_ShortRowsSkipped ==
    ( /\ imported # NoImport
      /\ Len(records) >= 1
      /\ \A k \in 2..Len(records) :
            \/ Len(records[k]) < 3
            \/ Len(records[k]) = Len(records[1]) /\ RowParses(records[k]) )
    => /\ imported.err = ""
       /\ imported.inputs = InputsOf(Tail(records))

\* the rows of three or more fields with a field among the first three that does not parse
BadRows(recs) ==
    {k \in 2..Len(recs) : Len(recs[k]) >= 3 /\ ~RowParses(recs[k])}

Least(S) == CHOOSE x \in S : \A y \in S : x <= y

\* the error FromCSV gives for the first field of the row that does not parse
FieldError(row) ==
    LET j == Least({c \in 1..3 : ~ParseFloat(row[c]).ok})
    IN  <<"invalid exercise price", "invalid exercised shares", "invalid FMV">>[j]

\* C19: when a data row of the header's length has a field among its first
\* three that does not parse, and every row before it either has fewer than
\* three fields or is a parsable row of the header's length, FromCSV returns
\* no Inputs and the error naming the first such field of the first such row.
C19_FirstParseError ==
    ( /\ imported # NoImport
      /\ Len(records) >= 1
      /\ BadRows(records) # {}
      /\ Len(records[Least(BadRows(records))]) = Len(records[1])
      /\ \A k \in 2..(Least(BadRows(records)) - 1) :
            \/ Len(records[k]) < 3
            \/ Len(records[k]) = Len(records[1]) )
    => /\ imported.inputs = <<>>
       /\ imported.err = FieldError(records[Least(BadRows(records))])

\* the digits after the decimal point of a field, -1 without exactly one point
Decimals(field) ==
    LET points == {k \in 1..Len(field) : field[k] = "."}
    IN  IF Cardinality(points) = 1 THEN Len(field) - Least(points) ELSE -1

\* Exercise Price, FMV, Total Costs, Est. Gross Proceeds, Taxable Gain,
\* Total Tax, Option Cost, Broker Fees
CurrencyColumns == {1, 3, 6, 7, 8, 9, 10, 11}

\* Exercised Shares, Shares To Sell, Net Shares
ShareColumns == {2, 4, 5}

\* C20: what ToCSV wrote is the eleven-column header followed by one
\* eleven-field row per Result, currency fields with two decimals and the three
\* share-count fields with four.
C20_ExportFormat ==
    csv # <<>> =>
        /\ csv[1] = CSVHeader
        /\ Len(CSVHeader) = 11
        /\ Len(csv) = 1 + Len(results)
        /\ \A k \in 2..Len(csv) :
              /\ Len(csv[k]) = 11
              /\ \A c \in CurrencyColumns : Decimals(csv[k][c]) = 2
              /\ \A c \in ShareColumns : Decimals(csv[k][c]) = 4

\* C21: reading back with FromCSV what ToCSV wrote for the BatchResult of
\* CalculateBatch(inputs) succeeds and returns as many Inputs as the batch had,
\* each with the ExercisePrice, ExercisedShares and FMV of the original at the
\* same position.
C21_RoundTrip ==
    (imported # NoImport /\ csv # <<>> /\ records = csv /\ bpc = "done") =>
        /\ imported.err = ""
        /\ Len(imported.inputs) = Len(inputs)
        /\ \A k \in 1..Len(inputs) : imported.inputs[k] = inputs[k]

----------------------------------------------------------------------------
(* Exercises under water *)

UnderWater == kind = "option" /\ InCall /\ input.FMV < input.ExercisePrice

\* (ExercisePrice - FMV) * ExercisedShares in 1 / (PriceScale * ShareScale) dollar
RawLoss == (input.ExercisePrice - input.FMV) * input.ExercisedShares

\* every tax line of the result is negative, or zero where the rate is zero
\* or the product is below half a cent, and the loop ran on the liability
LossTaxLinesAndSolve ==
    /\ \A k \in 1..5 :
          LET line == TaxLinesOf(result)[k]
              rate == RatesOf(config.TaxRates)[k]
              product == (result.TaxableGain \div CentTicks) * rate
          IN  /\ line <= 0
              /\ (rate > 0 /\ line = 0) => 2 * Abs(product) < RateScale
    /\ pc \in {"final", "returned"} =>
          /\ stable \/ i = maxIterations
          /\ iter.totalCosts = result.OptionCost + result.TotalTax + iter.feesApplied
          /\ iter.newSharesToSell = Shares(Ceil(iter.totalCosts, Money(input.FMV)))
    /\ pc = "returned" => DOMAIN result = DOMAIN ZeroResult

----------------------------------------------------------------------------
(* roundMoney *)

----------------------------------------------------------------------------
(* The tabs guard the solver *)

\* the three required texts all parse as numbers that are greater than 0
RequiredPositive(e) ==
    \A k \in 1..3 :
        LET p == parseFloat(e.texts[k])
        IN  p.ok /\ ~p.nan /\ p.mant > 0

\* C24: in the option tab and in the RSU tab a click invokes the solver only
\* when the three required fields parse as numbers and are strictly greater
\* than 0 (the empty field is 0 and is rejected); otherwise an error dialog is
\* shown, the solver is not called and the result labels stay as they were.
\* The solver so never receives a price divisor that is not positive.
C24_SolverGuard ==
    [][ /\ (invoked' # NoInput) =>
            /\ RequiredPositive(entries')
            /\ ~invoked'.divisor.nan /\ invoked'.divisor.mant > 0
        /\ (entries' # NoInput /\ ~RequiredPositive(entries')) =>
            /\ invoked' = NoInput
            /\ dialog' # ""
            /\ labels' = labels ]_vars

----------------------------------------------------------------------------
(* The share-count iteration *)

\* the base liability of the call: costs and taxes before the broker's fee
BaseLiability ==
    IF kind = "option"
    THEN result.OptionCost + result.TotalTax + Money(config.BrokerFees.FlatFee)
    ELSE result.TotalTax

\* the commission on one whole share, as money
RatePerShare == config.BrokerFees.CommissionRate * ShareScale

\* positive price, no negative liability or fee, and 0 <= r < price
SolvableCall ==
    /\ SolvePrice > 0
    /\ BaseLiability >= 0
    /\ config.BrokerFees.MinimumFee >= 0
    /\ config.BrokerFees.FlatFee >= 0
    /\ 0 <= RatePerShare
    /\ RatePerShare < SolvePrice

\* the fields a stable iteration fills in are still at their zero
LeftAtZero ==
    /\ result.SharesToSell = 0
    /\ result.BrokerCommission = 0
    /\ result.TotalCosts = 0
    /\ IF kind = "option" THEN result.BrokerFees = 0 ELSE result.TotalFees = 0

BodyNow ==
    IF kind = "option"
    THEN CalculateIteration(result, config, input, sharesToSell)
    ELSE RSUIteration(result, config, input, sharesToSell)

\* one step of a call: the body runs only below the bound; a body whose new
\* count equals the current one ends the loop; any other body counts one more
\* iteration; after the loop comes the return and no further body
SolveStep ==
    /\ (pc = "loop") =>
           /\ i < maxIterations
           /\ iter' = BodyNow
           /\ IF BodyNow.newSharesToSell = sharesToSell
              THEN stable' /\ pc' = "final" /\ i' = i /\ sharesToSell' = sharesToSell
              ELSE /\ ~stable'
                   /\ i' = i + 1
                   /\ sharesToSell' = BodyNow.newSharesToSell
                   /\ pc' = "loop" <=> i + 1 < maxIterations
    /\ (pc = "final") =>
           /\ pc' = "returned"
           /\ i' = i /\ iter' = iter /\ sharesToSell' = sharesToSell /\ stable' = stable

\* C26: Calculate and CalculateRSU terminate for every input and
\* configuration after at most 100 evaluations of the loop body (i full
\* iterations plus the stable one), and stop at the first iteration whose
\* recomputed share count equals the current one: no body runs after it.
C26_Terminates ==
    /\ [](i <= maxIterations /\ (stable => i < maxIterations))
    /\ [][SolveStep]_vars
    /\ (pc = "loop") ~> (pc = "returned")

C26_Witness == Returned /\ stable /\ 0 < i /\ i < maxIterations - 1

\* C27: for a positive share price every result returned by Calculate and
\* CalculateRSU has 0 <= Residual < price: the sale covers the reported
\* TotalCosts and leaves less than the value of one share.
C27_ResidualRange ==
    (Returned /\ SolvePrice > 0) =>
        (0 <= result.Residual /\ result.Residual < SolvePrice)

\* the initial guess of the running call
SeedNow ==
    IF kind = "option"
    THEN CalculateSeed(result, config, input)
    ELSE RSUSeed(result, config, input)

\* the count the first body computes from the seed
FirstCount ==
    IF kind = "option"
    THEN CalculateIteration(result, config, input, SeedNow).newSharesToSell
    ELSE RSUIteration(result, config, input, SeedNow).newSharesToSell

\* a loop step of a call with a positive price and a non-negative rate
MonotoneCase ==
    /\ pc = "loop"
    /\ SolvePrice > 0
    /\ config.BrokerFees.CommissionRate >= 0

\* C28 as stated: with a positive share price and a non-negative commission
\* rate the successive share counts never oscillate: in CalculateRSU each new
\* count is >= the previous one from the seed on, in Calculate the counts are
\* all non-decreasing or all non-increasing from the seed on.
C28_Monotone ==
    [][ MonotoneCase =>
          IF kind = "rsu"
          THEN sharesToSell' >= sharesToSell
          ELSE /\ (FirstCount >= SeedNow) => sharesToSell' >= sharesToSell
               /\ (FirstCount <= SeedNow) => sharesToSell' <= sharesToSell ]_vars

\* C28 amended: with a positive share price and a non-negative commission
\* rate the successive share counts of Calculate and of CalculateRSU are all
\* non-decreasing or all non-increasing from the seed on, in the direction of
\* the first step; in CalculateRSU they are non-decreasing when the minimum
\* fee and the flat fee are not negative.
C28_OneDirection ==
    [][ MonotoneCase =>
          /\ (FirstCount >= SeedNow) => sharesToSell' >= sharesToSell
          /\ (FirstCount <= SeedNow) => sharesToSell' <= sharesToSell
          /\ (kind = "rsu" /\ config.BrokerFees.MinimumFee >= 0
                           /\ config.BrokerFees.FlatFee >= 0)
                 => sharesToSell' >= sharesToSell ]_vars

C28_Witness ==
    /\ kind = "option" /\ pc \in {"loop", "final"}
    /\ SolvePrice > 0
    /\ config.BrokerFees.CommissionRate > 0
    /\ i >= 1
    /\ sharesToSell < SeedNow

----------------------------------------------------------------------------
(* The keypad *)

\* the operand a digit or point key starts after an operator or "="
FreshOperand(n) == IF n = "." THEN <<"0", ".">> ELSE <<n>>

\* the pending operation applied to the stored operand and the typed one
PendingNow == Evaluate(storedNum, currentOp, KeyValue(currentNum))

\* C29: for any key sequence, an operator pressed while another operator is
\* pending and an operand was typed since evaluates the pending operation at
\* once, makes its result the stored operand and makes the new operator
\* pending; an operator pressed directly after an operator or after "=" only
\* replaces the pending operator and evaluates nothing; after "=" (without a
\* division by zero) no operator is pending and the next digit starts a new
\* operand instead of extending the result.
C29_ImmediateExecution ==
    [][ /\ \A op \in OpKeys :
              (onOp(op) /\ currentOp # "" /\ ~lastWasOp) =>
                  /\ currentOp' = op
                  /\ IF PendingNow.zeroDivide
                     THEN currentNum' = ErrorText
                     ELSE /\ storedNum' = PendingNow.value
                          /\ currentNum' = FormatG(PendingNow.value)
        /\ \A op \in OpKeys :
              (onOp(op) /\ lastWasOp) =>
                  /\ currentOp' = op
                  /\ display' = display
                  /\ storedNum' = KeyValue(currentNum)
                  /\ (currentNum # ErrorText => currentNum' = currentNum)
        /\ (onEq /\ ~(currentOp # "" /\ PendingNow.zeroDivide)) =>
                  (currentOp' = "" /\ lastWasOp')
        /\ \A n \in NumKeys :
              (onNum(n) /\ lastWasOp) => currentNum' = FreshOperand(n) ]_vars

\* the number of decimal points in s
Points(s) == Cardinality({k \in 1..Len(s) : s[k] = "."})

\* C30: in every state reachable by digit, ".", operator, "=" and "C" presses
\* the current operand holds at most one decimal point, and whenever it is
\* "Error" the last-action-was-operator flag is set, so that a following digit
\* or "." starts a fresh operand from "0" and is never appended to "Error";
\* "C" from any state restores the initial state.
C30_OperandWellFormed ==
    /\ [](Points(currentNum) <= 1 /\ (currentNum = ErrorText => lastWasOp))
    /\ [][ /\ \A n \in NumKeys :
                  (onNum(n) /\ currentNum = ErrorText) => currentNum' = FreshOperand(n)
            /\ (onClear => (KeypadCleared' /\ display' = <<"0">> /\ history' = <<>>)) ]_vars

C30_Witness ==
    /\ currentNum = ErrorText
    /\ lastWasOp
    /\ currentOp = "/"
    /\ display = ErrorText

====
